---- MODULE Spec2Model ----
(***************************************************************************)
(* Model of mcpcli/__main__.py: the run() lifecycle (configuration,        *)
(* transport open, handshake, one-shot / interactive command dispatch,     *)
(* bounded close), handle_command, interactive_mode, signal_handler and    *)
(* the exit code computed by cli_main.                                     *)
(*                                                                         *)
(* Servers are identified by their position in server_names.  What the     *)
(* collaborators outside __main__.py do (load_config, stdio_client,        *)
(* sse_client, the send functions) is an input: an await resolves to one   *)
(* of the outcomes the caller's code distinguishes.                        *)
(***************************************************************************)
EXTENDS Integers, Sequences, FiniteSets, TLC

\* ---- bounds ----
MaxServers == 2   \* number of --server options
MaxInputs == 2    \* lines read by the interactive loop before end-of-input

\* ---- inputs ----
\* what load_config yields for a requested name: a missing name raises,
\* otherwise stdio parameters, SSE parameters or some other object
ServerKinds == {"stdio", "sse", "unsupported", "missing"}
\* argparse choices for the positional command; "none" is args.command = None
FanOutCommands == {"ping", "list-tools", "list-resources", "list-prompts"}
CliCommands == FanOutCommands \cup {"none"}
\* command lines of the interactive loop ("" is an empty line)
InteractiveInputs ==
  FanOutCommands \cup {"call-tool", "chat", "quit", "exit", "clear", "help", "unknown", ""}
\* how an awaited send_* on one session resolves: a truthy/dict response, a
\* falsy (None/False) response, an exception, or no response at all
CallOutcomes == {"ok", "none", "raise", "hang"}
\* how an awaited cm.__aexit__() resolves
CloseOutcomes == {"ok", "error", "hang"}
\* how send_initialize resolves
InitOutcomes == {"ok", "fail", "raise"}

SeqsUpTo(S, n) == UNION {[1..m -> S] : m \in 0..n}
Range(s) == {s[i] : i \in DOMAIN s}

VARIABLES
  server_names,      \* args.servers: the kinds of the requested servers, in order
  command,           \* args.command
  pc,                \* position of the control flow
  idx,               \* index of the for loop of run() over server_names
  server_streams,    \* list of sessions (server indices), line 290
  context_managers,  \* list of entered context managers (server indices), line 291
  handshake,         \* per server: "Unestablished", "Ready" or "Failed"
  initAttempts,      \* per server: number of send_initialize calls
  sent,              \* per server: number of application requests written
  closeAttempts,     \* per server: number of __aexit__ calls
  closeResult,       \* per server: "none", "closed", "timeout" or "error"
  exc,               \* exception propagating out of run(), "none" if none
  exitCode,          \* process exit status, -1 while the process lives
  cur,               \* command being handled by handle_command
  k,                 \* index of the fan-out loop over server_streams
  awaiting,          \* how the pending send_* resolves, "-" if none pending
  results,           \* per-session panels printed for the current command
  errors,            \* "Error executing command" messages of the current command
  messages,          \* local messages (validation failure, unknown command) of the current command
  toolInput,         \* what call-tool was given: "-", "ok", "emptyname" or "badjson"
  inflight,          \* per server: requests written whose await is still pending
  nreads,            \* lines read so far by interactive_mode
  ndispatched,       \* lines interactive_mode has passed to handle_command
  j,                 \* index of the cleanup loop over context_managers
  closeWait,         \* how the pending __aexit__ resolves, "-" if none pending
  openFailedAt,      \* index of the server whose transport open raised, 0 if none
  configErrorAt,     \* index of the server whose load_config raised, 0 if none
  initFailedAt,      \* index of the server whose handshake failed, 0 if none
  enteredRunning,    \* the try block of run() was entered
  quitSeen,          \* handle_command returned False
  killed             \* signal_handler killed the process

vars == <<server_names, command, pc, idx, server_streams, context_managers,
          handshake, initAttempts, sent, closeAttempts, closeResult, exc,
          exitCode, cur, k, awaiting, results, errors, messages, toolInput,
          inflight, nreads, ndispatched, j,
          closeWait, openFailedAt, configErrorAt, initFailedAt,
          enteredRunning, quitSeen, killed>>

Servers == DOMAIN server_names

Init ==
  /\ server_names \in SeqsUpTo(ServerKinds, MaxServers)
  /\ command \in CliCommands
  /\ pc = "load"
  /\ idx = 1
  /\ server_streams = <<>>
  /\ context_managers = <<>>
  /\ handshake = [i \in DOMAIN server_names |-> "Unestablished"]
  /\ initAttempts = [i \in DOMAIN server_names |-> 0]
  /\ sent = [i \in DOMAIN server_names |-> 0]
  /\ closeAttempts = [i \in DOMAIN server_names |-> 0]
  /\ closeResult = [i \in DOMAIN server_names |-> "none"]
  /\ exc = "none"
  /\ exitCode = -1
  /\ cur = "-"
  /\ k = 0
  /\ awaiting = "-"
  /\ results = <<>>
  /\ errors = 0
  /\ messages = 0
  /\ toolInput = "-"
  /\ inflight = [i \in DOMAIN server_names |-> 0]
  /\ nreads = 0
  /\ ndispatched = 0
  /\ j = 0
  /\ closeWait = "-"
  /\ openFailedAt = 0
  /\ configErrorAt = 0
  /\ initFailedAt = 0
  /\ enteredRunning = FALSE
  /\ quitSeen = FALSE
  /\ killed = FALSE

\* unchanged groups
inputVars == <<server_names, command>>
connVars == <<idx, server_streams, context_managers, handshake, initAttempts,
              openFailedAt, configErrorAt, initFailedAt>>
cmdVars == <<cur, k, awaiting, results, errors, messages, sent, toolInput,
             inflight>>
loopVars == <<nreads, ndispatched, quitSeen>>
closeVars == <<closeAttempts, closeResult, j, closeWait>>
exitVars == <<exc, exitCode, killed>>

----
\* run(), lines 293-314: establishing the sessions

\* line 294: server_params = await load_config(config_path, server_name)
LoadConfig ==
  /\ pc = "load"
  /\ idx <= Len(server_names)
  /\ IF server_names[idx] = "missing"
       THEN /\ pc' = "ret"
            /\ exc' = "ConfigurationError"
            /\ configErrorAt' = idx
       ELSE /\ pc' = "open"
            /\ UNCHANGED <<exc, configErrorAt>>
  /\ UNCHANGED <<inputVars, idx, server_streams, context_managers, handshake,
                 initAttempts, openFailedAt, initFailedAt, cmdVars, loopVars,
                 closeVars, exitCode, killed, enteredRunning>>

\* OpenStdio with the failure of the open swallowed: the loop goes on to the
\* next server
OpenStdioSwallow ==
  /\ pc = "open"
  /\ server_names[idx] = "stdio"
  /\ \E ok \in BOOLEAN :
       IF ok
         THEN /\ context_managers' = Append(context_managers, idx)
              /\ server_streams' = Append(server_streams, idx)
              /\ pc' = "init"
              /\ UNCHANGED <<exc, openFailedAt, idx>>
         ELSE /\ pc' = "load"
              /\ idx' = idx + 1
              /\ openFailedAt' = idx
              /\ UNCHANGED <<context_managers, server_streams, exc>>
  /\ UNCHANGED <<inputVars, handshake, initAttempts, configErrorAt,
                 initFailedAt, cmdVars, loopVars, closeVars, exitCode, killed,
                 enteredRunning>>

\* lines 297-301: the stdio branch up to the append of the streams
OpenStdio ==
  /\ pc = "open"
  /\ server_names[idx] = "stdio"
  /\ \E ok \in BOOLEAN :
       IF ok
         THEN /\ context_managers' = Append(context_managers, idx)
              /\ server_streams' = Append(server_streams, idx)
              /\ pc' = "init"
              /\ UNCHANGED <<exc, openFailedAt>>
         ELSE /\ pc' = "ret"
              /\ exc' = "TransportError"
              /\ openFailedAt' = idx
              /\ UNCHANGED <<context_managers, server_streams>>
  /\ UNCHANGED <<inputVars, idx, handshake, initAttempts, configErrorAt,
                 initFailedAt, cmdVars, loopVars, closeVars, exitCode, killed,
                 enteredRunning>>

\* lines 303-306: init_result = await send_initialize(...); return on failure
SendInitialize ==
  /\ pc = "init"
  /\ initAttempts' = [initAttempts EXCEPT ![idx] = @ + 1]
  /\ \E r \in InitOutcomes :
       CASE r = "ok" ->
              /\ handshake' = [handshake EXCEPT ![idx] = "Ready"]
              /\ idx' = idx + 1
              /\ pc' = "load"
              /\ UNCHANGED <<exc, initFailedAt>>
         [] r = "fail" ->
              /\ handshake' = [handshake EXCEPT ![idx] = "Failed"]
              /\ initFailedAt' = idx
              /\ pc' = "ret"
              /\ UNCHANGED <<exc, idx>>
         [] r = "raise" ->
              /\ handshake' = [handshake EXCEPT ![idx] = "Failed"]
              /\ initFailedAt' = idx
              /\ exc' = "HandshakeError"
              /\ pc' = "ret"
              /\ UNCHANGED idx
  /\ UNCHANGED <<inputVars, server_streams, context_managers, openFailedAt,
                 configErrorAt, cmdVars, loopVars, closeVars, exitCode, killed,
                 enteredRunning>>

\* lines 307-311: the SSE branch: open and append, no send_initialize
OpenSSE ==
  /\ pc = "open"
  /\ server_names[idx] = "sse"
  /\ \E ok \in BOOLEAN :
       IF ok
         THEN /\ context_managers' = Append(context_managers, idx)
              /\ server_streams' = Append(server_streams, idx)
              /\ idx' = idx + 1
              /\ pc' = "load"
              /\ UNCHANGED <<exc, openFailedAt>>
         ELSE /\ pc' = "ret"
              /\ exc' = "TransportError"
              /\ openFailedAt' = idx
              /\ UNCHANGED <<context_managers, server_streams, idx>>
  /\ UNCHANGED <<inputVars, handshake, initAttempts, configErrorAt,
                 initFailedAt, cmdVars, loopVars, closeVars, exitCode, killed,
                 enteredRunning>>

\* lines 313-314: raise ValueError("Server transport not supported")
Unsupported ==
  /\ pc = "open"
  /\ server_names[idx] = "unsupported"
  /\ pc' = "ret"
  /\ exc' = "ValueError"
  /\ UNCHANGED <<inputVars, connVars, cmdVars, loopVars, closeVars, exitCode,
                 killed, enteredRunning>>

----
\* run(), lines 316-322, handle_command (58-243) and interactive_mode (252-272)

\* the state of a fresh call handle_command(c, server_streams)
Enter(c) ==
  /\ cur' = c
  /\ k' = 1
  /\ awaiting' = "-"
  /\ results' = <<>>
  /\ errors' = 0
  /\ messages' = 0
  /\ toolInput' = "-"
  /\ pc' = "dispatch"

\* lines 316-322: the try block: one command, or the interactive loop
EnterRunning ==
  /\ pc = "load"
  /\ idx > Len(server_names)
  /\ enteredRunning' = TRUE
  /\ IF command # "none"
       THEN Enter(command)
       ELSE /\ pc' = "prompt"
            /\ UNCHANGED <<cur, k, awaiting, results, errors, messages,
                           toolInput>>
  /\ UNCHANGED <<inputVars, connVars, sent, inflight, loopVars, closeVars,
                 exitVars>>

\* lines 261-266: a line is read; an empty line reads again
PromptAsk ==
  /\ pc = "prompt"
  /\ nreads < MaxInputs
  /\ nreads' = nreads + 1
  /\ \E c \in InteractiveInputs :
       IF c = ""
         THEN UNCHANGED <<pc, cur, k, awaiting, results, errors, messages,
                          toolInput, ndispatched>>
         ELSE Enter(c) /\ ndispatched' = ndispatched + 1
  /\ UNCHANGED <<inputVars, connVars, sent, inflight, quitSeen, closeVars,
                 exitVars, enteredRunning>>

\* PromptEOF with the cleanup outside a finally: end-of-input leaves run()
PromptEOFSkipsFinally ==
  /\ pc = "prompt"
  /\ pc' = "ret"
  /\ UNCHANGED <<inputVars, connVars, cmdVars, loopVars, closeVars, exitVars,
                 enteredRunning>>

\* lines 269-270: except EOFError: break, which runs the finally of run()
PromptEOF ==
  /\ pc = "prompt"
  /\ pc' = "closing"
  /\ j' = 1
  /\ UNCHANGED <<inputVars, connVars, cmdVars, loopVars, closeAttempts,
                 closeResult, closeWait, exitVars, enteredRunning>>

\* Return with the result of handle_command ignored by the interactive loop
ReturnAlwaysContinue(should_continue) ==
  /\ IF command # "none"
       THEN pc' = "closing" /\ j' = 1
       ELSE pc' = "prompt" /\ UNCHANGED j
  /\ quitSeen' = (quitSeen \/ ~should_continue)
  /\ UNCHANGED <<nreads, ndispatched>>

\* where control goes when handle_command returns should_continue:
\* line 319 ignores it and falls into the finally, lines 266-268 loop or return
Return(should_continue) ==
  /\ IF command # "none" \/ ~should_continue
       THEN pc' = "closing" /\ j' = 1
       ELSE pc' = "prompt" /\ UNCHANGED j
  /\ quitSeen' = (quitSeen \/ ~should_continue)
  /\ UNCHANGED <<nreads, ndispatched>>

\* what the loop body of a fan-out command makes of one session's response:
\* a panel ("success", "failure", "empty") or the exception that reaches
\* line 240 ("abort")
PerSession(c, outcome) ==
  CASE outcome = "raise" -> "abort"
    [] outcome = "ok" -> "success"
    [] outcome = "none" /\ c = "ping" -> "failure"            \* lines 69-71
    [] outcome = "none" /\ c = "list-resources" -> "empty"    \* lines 140-144
    [] OTHER -> "abort"                  \* lines 77, 165: None.get raises

\* FanSend with the request written but not awaited: the loop goes on at once
FanSendNoAwait ==
  /\ pc \in {"dispatch", "fan"}
  /\ cur \in FanOutCommands
  /\ k <= Len(server_streams)
  /\ sent' = [sent EXCEPT ![server_streams[k]] = @ + 1]
  /\ inflight' = [inflight EXCEPT ![server_streams[k]] = @ + 1]
  /\ k' = k + 1
  /\ pc' = "fan"
  /\ UNCHANGED <<inputVars, connVars, cur, awaiting, results, errors, messages,
                 toolInput, loopVars, closeVars, exitVars, enteredRunning>>

\* lines 64, 76, 139, 164: the request of the k-th session is written and awaited
FanSend ==
  /\ pc \in {"dispatch", "fan"}
  /\ cur \in FanOutCommands
  /\ k <= Len(server_streams)
  /\ sent' = [sent EXCEPT ![server_streams[k]] = @ + 1]
  /\ inflight' = [inflight EXCEPT ![server_streams[k]] = @ + 1]
  /\ \E o \in CallOutcomes : awaiting' = o
  /\ pc' = "await"
  /\ UNCHANGED <<inputVars, connVars, cur, k, results, errors, messages,
                 toolInput, loopVars, closeVars, exitVars, enteredRunning>>

\* FanRecv with the panel numbered by the 0-based loop index
FanRecvZeroBased ==
  /\ pc = "await"
  /\ awaiting # "hang"
  /\ awaiting' = "-"
  /\ inflight' = [inflight EXCEPT ![server_streams[k]] = @ - 1]
  /\ LET r == PerSession(cur, awaiting) IN
       IF r = "abort"
         THEN /\ errors' = errors + 1
              /\ Return(TRUE)
              /\ UNCHANGED <<k, results>>
         ELSE /\ results' = Append(results, [server |-> k - 1, kind |-> r,
                                                session |-> server_streams[k]])
              /\ k' = k + 1
              /\ pc' = "fan"
              /\ UNCHANGED <<errors, j, loopVars>>
  /\ UNCHANGED <<inputVars, connVars, cur, messages, sent, toolInput,
                 closeAttempts, closeResult, closeWait, exitVars, enteredRunning>>

\* FanRecv with the session whose request raised removed from the list
FanRecvDropsSession ==
  /\ pc = "await"
  /\ awaiting # "hang"
  /\ awaiting' = "-"
  /\ inflight' = [inflight EXCEPT ![server_streams[k]] = @ - 1]
  /\ LET r == PerSession(cur, awaiting) IN
       IF r = "abort"
         THEN /\ errors' = errors + 1
              /\ server_streams' =
                   SelectSeq(server_streams, LAMBDA x : x # server_streams[k])
              /\ Return(TRUE)
              /\ UNCHANGED <<k, results>>
         ELSE /\ results' = Append(results, [server |-> k, kind |-> r,
                                                session |-> server_streams[k]])
              /\ k' = k + 1
              /\ pc' = "fan"
              /\ UNCHANGED <<errors, j, loopVars, server_streams>>
  /\ UNCHANGED <<inputVars, idx, context_managers, handshake, initAttempts,
                 openFailedAt, configErrorAt, initFailedAt, cur, messages, sent,
                 toolInput, closeAttempts, closeResult, closeWait, exitVars,
                 enteredRunning>>

\* FanRecv with the exception of a command ending the interactive loop
FanRecvAbortEnds ==
  /\ pc = "await"
  /\ awaiting # "hang"
  /\ awaiting' = "-"
  /\ inflight' = [inflight EXCEPT ![server_streams[k]] = @ - 1]
  /\ LET r == PerSession(cur, awaiting) IN
       IF r = "abort"
         THEN /\ errors' = errors + 1
              /\ pc' = "closing"
              /\ j' = 1
              /\ UNCHANGED <<k, results, loopVars>>
         ELSE /\ results' = Append(results, [server |-> k, kind |-> r,
                                                session |-> server_streams[k]])
              /\ k' = k + 1
              /\ pc' = "fan"
              /\ UNCHANGED <<errors, j, loopVars>>
  /\ UNCHANGED <<inputVars, connVars, cur, messages, sent, toolInput,
                 closeAttempts, closeResult, closeWait, exitVars, enteredRunning>>

\* lines 65-71, 77-97, 140-159, 165-182 and 240-243: the response is rendered,
\* or the exception ends the command
FanRecv ==
  /\ pc = "await"
  /\ awaiting # "hang"
  /\ awaiting' = "-"
  /\ inflight' = [inflight EXCEPT ![server_streams[k]] = @ - 1]
  /\ LET r == PerSession(cur, awaiting) IN
       IF r = "abort"
         THEN /\ errors' = errors + 1
              /\ Return(TRUE)
              /\ UNCHANGED <<k, results>>
         ELSE /\ results' = Append(results, [server |-> k, kind |-> r,
                                                session |-> server_streams[k]])
              /\ k' = k + 1
              /\ pc' = "fan"
              /\ UNCHANGED <<errors, j, loopVars>>
  /\ UNCHANGED <<inputVars, connVars, cur, messages, sent, toolInput,
                 closeAttempts, closeResult, closeWait, exitVars, enteredRunning>>

\* the for loop is exhausted, line 243: return True
FanDone ==
  /\ pc \in {"dispatch", "fan"}
  /\ cur \in FanOutCommands
  /\ k > Len(server_streams)
  /\ Return(TRUE)
  /\ UNCHANGED <<inputVars, connVars, cmdVars, closeAttempts, closeResult,
                 closeWait, exitVars, enteredRunning>>

\* the sessions a call of send_call_tool / handle_chat_mode writes to
Touch(streams) ==
  [i \in DOMAIN sent |-> IF i \in Range(streams) THEN sent[i] + 1 ELSE sent[i]]

\* CallTool with send_call_tool called before the input is validated
CallToolDispatchFirst ==
  /\ pc = "dispatch"
  /\ cur = "call-tool"
  /\ \E input \in {"emptyname", "badjson", "ok"}, o \in {"ok", "isError", "raise"} :
       /\ toolInput' = input
       /\ sent' = Touch(server_streams)
       /\ IF input # "ok"
            THEN /\ messages' = messages + 1
                 /\ UNCHANGED errors
            ELSE /\ errors' = IF o = "ok" THEN errors ELSE errors + 1
                 /\ UNCHANGED messages
  /\ Return(TRUE)
  /\ UNCHANGED <<inputVars, connVars, cur, k, awaiting, results, inflight,
                 closeAttempts, closeResult, closeWait, exitVars, enteredRunning>>

\* lines 99-134: call-tool: local validation, then one send_call_tool
CallTool ==
  /\ pc = "dispatch"
  /\ cur = "call-tool"
  /\ \E input \in {"emptyname", "badjson", "ok"}, o \in {"ok", "isError", "raise"} :
       /\ toolInput' = input
       /\ IF input # "ok"
            THEN /\ messages' = messages + 1
                 /\ UNCHANGED <<sent, errors>>
            ELSE /\ sent' = Touch(server_streams)
                 /\ errors' = IF o = "ok" THEN errors ELSE errors + 1
                 /\ UNCHANGED messages
  /\ Return(TRUE)
  /\ UNCHANGED <<inputVars, connVars, cur, k, awaiting, results, inflight,
                 closeAttempts, closeResult, closeWait, exitVars, enteredRunning>>

\* lines 184-208: chat: the session list is handed to handle_chat_mode
Chat ==
  /\ pc = "dispatch"
  /\ cur = "chat"
  /\ sent' = Touch(server_streams)
  /\ \E o \in {"ok", "raise"} : errors' = IF o = "ok" THEN errors ELSE errors + 1
  /\ Return(TRUE)
  /\ UNCHANGED <<inputVars, connVars, cur, k, awaiting, results, messages,
                 toolInput, inflight, closeAttempts, closeResult, closeWait,
                 exitVars, enteredRunning>>

\* lines 210-212: quit / exit: return False
Quit ==
  /\ pc = "dispatch"
  /\ cur \in {"quit", "exit"}
  /\ Return(FALSE)
  /\ UNCHANGED <<inputVars, connVars, cmdVars, closeAttempts, closeResult,
                 closeWait, exitVars, enteredRunning>>

\* Local with a request written to every session
LocalPings ==
  /\ pc = "dispatch"
  /\ cur \in {"clear", "help", "unknown"}
  /\ messages' = IF cur = "unknown" THEN messages + 1 ELSE messages
  /\ sent' = [i \in DOMAIN sent |->
               IF i \in Range(server_streams) THEN sent[i] + 1 ELSE sent[i]]
  /\ Return(TRUE)
  /\ UNCHANGED <<inputVars, connVars, cur, k, awaiting, results, errors,
                 toolInput, inflight, closeAttempts, closeResult, closeWait,
                 exitVars, enteredRunning>>

\* lines 214-239: clear, help and the unknown command
Local ==
  /\ pc = "dispatch"
  /\ cur \in {"clear", "help", "unknown"}
  /\ messages' = IF cur = "unknown" THEN messages + 1 ELSE messages
  /\ Return(TRUE)
  /\ UNCHANGED <<inputVars, connVars, cur, k, awaiting, results, errors, sent,
                 toolInput, inflight, closeAttempts, closeResult, closeWait,
                 exitVars, enteredRunning>>

----
\* run(), lines 323-327: the finally block

\* line 327: cm.__aexit__() is called inside move_on_after(1)
CloseStart ==
  /\ pc = "closing"
  /\ j <= Len(context_managers)
  /\ closeAttempts' = [closeAttempts EXCEPT ![context_managers[j]] = @ + 1]
  /\ \E o \in CloseOutcomes : closeWait' = o
  /\ pc' = "closewait"
  /\ UNCHANGED <<inputVars, connVars, cmdVars, loopVars, closeResult, j,
                 exitVars, enteredRunning>>

\* __aexit__ returns: next context manager
CloseDone ==
  /\ pc = "closewait"
  /\ closeWait = "ok"
  /\ closeResult' = [closeResult EXCEPT ![context_managers[j]] = "closed"]
  /\ closeWait' = "-"
  /\ j' = j + 1
  /\ pc' = "closing"
  /\ UNCHANGED <<inputVars, connVars, cmdVars, loopVars, closeAttempts,
                 exitVars, enteredRunning>>

\* __aexit__ raises: move_on_after does not catch it, it leaves the finally
CloseError ==
  /\ pc = "closewait"
  /\ closeWait = "error"
  /\ closeResult' = [closeResult EXCEPT ![context_managers[j]] = "error"]
  /\ closeWait' = "-"
  /\ exc' = "CloseError"
  /\ pc' = "ret"
  /\ UNCHANGED <<inputVars, connVars, cmdVars, loopVars, closeAttempts, j,
                 exitCode, killed, enteredRunning>>

\* CloseDeadline with the timed-out close tried again
CloseDeadlineRetry ==
  /\ pc = "closewait"
  /\ closeWait = "hang"
  /\ closeResult' = [closeResult EXCEPT ![context_managers[j]] = "timeout"]
  /\ closeWait' = "-"
  /\ pc' = "closing"
  /\ UNCHANGED <<inputVars, connVars, cmdVars, loopVars, closeAttempts, j,
                 exitVars, enteredRunning>>

\* CloseDeadline without move_on_after: the pending __aexit__ is awaited forever
CloseNoDeadline ==
  /\ pc = "closewait"
  /\ closeWait = "hang"
  /\ UNCHANGED vars

\* line 326: the one-second deadline of move_on_after cancels the pending
\* __aexit__ and the loop goes on
CloseDeadline ==
  /\ pc = "closewait"
  /\ closeWait = "hang"
  /\ closeResult' = [closeResult EXCEPT ![context_managers[j]] = "timeout"]
  /\ closeWait' = "-"
  /\ j' = j + 1
  /\ pc' = "closing"
  /\ UNCHANGED <<inputVars, connVars, cmdVars, loopVars, closeAttempts,
                 exitVars, enteredRunning>>

\* the cleanup loop is exhausted: run() returns None
CloseFinished ==
  /\ pc = "closing"
  /\ j > Len(context_managers)
  /\ pc' = "ret"
  /\ UNCHANGED <<inputVars, connVars, cmdVars, loopVars, closeVars, exitVars,
                 enteredRunning>>

----
\* cli_main, lines 383-388: sys.exit(result) with result = None, or
\* sys.exit(1) when run() raised
Exit ==
  /\ pc = "ret"
  /\ exitCode' = IF exc = "none" THEN 0 ELSE 1
  /\ pc' = "Terminated"
  /\ UNCHANGED <<inputVars, connVars, cmdVars, loopVars, closeVars, exc, killed,
                 enteredRunning>>

\* signal_handler, lines 43-51: SIGINT kills the process with SIGKILL
signal_handler ==
  /\ pc # "Terminated"
  /\ killed' = TRUE
  /\ exitCode' = 137
  /\ pc' = "Terminated"
  /\ UNCHANGED <<inputVars, connVars, cmdVars, loopVars, closeVars, exc,
                 enteredRunning>>

----
Connecting == LoadConfig \/ OpenStdio \/ SendInitialize \/ OpenSSE \/ Unsupported
Running ==
  \/ EnterRunning \/ PromptAsk \/ PromptEOF \/ FanSend \/ FanRecv \/ FanDone
  \/ CallTool \/ Chat \/ Quit \/ Local
Closing == CloseStart \/ CloseDone \/ CloseError \/ CloseDeadline \/ CloseFinished

\* the steps the program takes by itself
Program == Connecting \/ Running \/ Closing \/ Exit

Next == Program \/ signal_handler

Spec == Init /\ [][Next]_vars

\* the event loop runs the cleanup loop, the deadline timer fires, and
\* cli_main exits once run() is over
FairSpec == Spec /\ WF_vars(Closing) /\ WF_vars(Exit)

TypeOK ==
  /\ pc \in {"load", "open", "init", "prompt", "dispatch", "fan", "await",
             "closing", "closewait", "ret", "Terminated"}
  /\ exitCode \in {-1, 0, 1, 137}
  /\ Range(server_streams) \subseteq Servers
  /\ Range(context_managers) \subseteq Servers

----
\* the transports that were opened
Opened == Range(context_managers)

\* C1: on every exit path of run() that is not an interrupt, every opened
\* transport has had its close attempted when the process is Terminated.
C1_CloseAttemptedOnEveryExit ==
  (pc = "Terminated" /\ ~killed) => \A i \in Opened : closeAttempts[i] >= 1

\* C2: once the open of server k has failed, only servers before k are
\* opened, Running is never entered, no request is sent to any session, the
\* run is over and the exit code is not 0.
C2_OpenFailureAborts ==
  openFailedAt # 0 =>
    /\ \A i \in Opened : i < openFailedAt
    /\ ~enteredRunning
    /\ \A i \in Servers : sent[i] = 0
    /\ pc \in {"ret", "Terminated"}
    /\ pc = "Terminated" => exitCode # 0

\* C2 witness: server 1 was opened, the open of server 2 failed, exit code 1
C2_Witness ==
  /\ openFailedAt = 2
  /\ context_managers = <<1>>
  /\ pc = "Terminated"
  /\ exitCode = 1

\* a fan-out command has returned to its caller
FanOutReturned == cur \in FanOutCommands /\ pc \in {"prompt", "closing"}

\* C3: when a fan-out command returns, it has produced exactly one result per
\* session, result i for session i.
C3_ExactlyNResults ==
  FanOutReturned =>
    /\ Len(results) = Len(server_streams)
    /\ \A i \in DOMAIN results : results[i].server = i

\* C4: while a session's response does not arrive and another session of the
\* fan-out is still to be served, the program can take a step.
C4_SlowSessionDoesNotBlock ==
  (pc = "await" /\ awaiting = "hang" /\ k < Len(server_streams)) => ENABLED Program

\* C5: a request is only ever sent on a session whose handshake is Ready.
C5_NoRequestBeforeReady ==
  \A i \in Servers : sent[i] > 0 => handshake[i] = "Ready"

\* C6: a configuration error is raised only while no transport is open.
C6_ConfigErrorBeforeOpen ==
  configErrorAt # 0 => context_managers = <<>>

\* C7: a run in which a handshake failed and that ended without an interrupt
\* has entered Running.
C7_HandshakeFailureContinues ==
  (initFailedAt # 0 /\ pc = "Terminated" /\ ~killed) => enteredRunning

\* C8: once Closing is entered the process eventually reaches Terminated.
C8_ClosingTerminates ==
  (pc \in {"closing", "closewait"}) ~> (pc = "Terminated")

\* C8 witness: a close that did not complete was abandoned at its deadline and
\* the process terminated by itself
C8_Witness ==
  /\ pc = "Terminated"
  /\ ~killed
  /\ \E i \in Servers : closeResult[i] = "timeout"

\* C9: when Closing is over (and no interrupt occurred), the close of every
\* opened transport has been attempted.
C9_EveryCloseAttempted ==
  (j >= 1 /\ pc \in {"ret", "Terminated"} /\ ~killed) =>
    \A i \in Opened : closeAttempts[i] >= 1

\* C10: after an interrupt, the close of every opened subprocess transport
\* has been attempted.
C10_InterruptReleases ==
  killed => \A i \in Opened : server_names[i] = "stdio" => closeAttempts[i] >= 1

----
\* the positions inside the loop of interactive_mode
InLoop == {"prompt", "dispatch", "fan", "await"}

\* C11: in interactive mode the loop is left for the cleanup only from the
\* prompt (end-of-input) or while handling quit/exit, and a step that reports
\* a command failure goes back to the prompt.
C11_LoopSurvivesFailures ==
  [][command = "none" =>
       /\ (pc \in InLoop /\ pc' = "closing") =>
            (pc = "prompt" \/ cur \in {"quit", "exit"})
       /\ (errors' > errors) => pc' = "prompt"]_vars

\* C11 witness: a command failed and the loop is back at its prompt
C11_Witness ==
  /\ command = "none"
  /\ errors > 0
  /\ pc = "prompt"
  /\ server_streams # <<>>

\* C12: once handle_command has returned False no further line is read, no
\* further command is dispatched and no request is sent; every dispatch is of
\* a line just read.
C12_QuitEndsLoop ==
  [][/\ quitSeen =>
          /\ nreads' = nreads
          /\ ndispatched' = ndispatched
          /\ sent' = sent
          /\ cur' = cur
          /\ pc' \notin InLoop
     /\ ndispatched' # ndispatched =>
          (ndispatched' = ndispatched + 1 /\ nreads' = nreads + 1)]_vars

\* C12 witness: a fan-out command was dispatched, then quit ended the loop
C12_Witness ==
  /\ quitSeen
  /\ nreads = 2
  /\ ndispatched = 2
  /\ \E i \in Servers : sent[i] = 1
  /\ pc = "Terminated"
  /\ ~killed

\* C13: a call-tool whose tool name is empty or whose arguments are not JSON
\* sends nothing to any session, reports exactly one local message and no
\* command error, and returns to the prompt.
C13_InvalidCallToolIsLocal ==
  [][(pc = "dispatch" /\ cur = "call-tool" /\ toolInput' \in {"emptyname", "badjson"}) =>
       /\ sent' = sent
       /\ inflight' = inflight
       /\ messages' = messages + 1
       /\ messages' = 1
       /\ errors' = errors
       /\ pc' = "prompt"
       /\ ~quitSeen']_vars

\* C13 witness: call-tool was given text that is not JSON while a session is open
C13_Witness ==
  /\ cur = "call-tool"
  /\ toolInput = "badjson"
  /\ messages = 1
  /\ pc = "prompt"
  /\ server_streams # <<>>
  /\ \A i \in Servers : sent[i] = 0

\* C14: a run that ends by itself exits with 0 when it went through Running
\* and with a non-zero code when a configuration error, a transport-open
\* failure or a handshake failure ended it.
C14_ExitCode ==
  (pc = "Terminated" /\ ~killed) =>
    /\ enteredRunning => exitCode = 0
    /\ (configErrorAt # 0 \/ openFailedAt # 0 \/ initFailedAt # 0) => exitCode # 0

\* the commands of handle_command that are handled locally
LocalCommands == {"help", "clear", "quit", "exit", "unknown"}

\* C15: handling help, clear, quit, exit or an unknown command sends no
\* request and leaves the sessions as they are; an unknown command prints one
\* message and the loop goes back to its prompt.
C15_LocalCommandsTouchNoSession ==
  [][(pc = "dispatch" /\ cur \in LocalCommands) =>
       /\ sent' = sent
       /\ inflight' = inflight
       /\ handshake' = handshake
       /\ server_streams' = server_streams
       /\ context_managers' = context_managers
       /\ closeAttempts' = closeAttempts
       /\ (cur = "unknown" /\ ~killed') =>
            (messages' = messages + 1 /\ pc' = "prompt" /\ ~quitSeen')]_vars

\* C15 witness: an unknown command was handled with a session open
C15_Witness ==
  /\ cur = "unknown"
  /\ messages = 1
  /\ pc = "prompt"
  /\ server_streams # <<>>
  /\ \A i \in Servers : sent[i] = 0

\* C16: the i-th panel of a fan-out command is the result of the i-th
\* requested server and is labelled server i.
C16_ResultsInConfigurationOrder ==
  \A i \in DOMAIN results :
    /\ results[i].server = i
    /\ results[i].session = i
    /\ server_streams[i] = i

\* C16 witness: a fan-out command over two sessions produced both panels
C16_Witness ==
  /\ FanOutReturned
  /\ Len(results) = 2
  /\ results[2].session = 2

\* C17: no session ever has more than one request in flight.
C17_OneRequestInFlight ==
  \A i \in Servers : inflight[i] <= 1

\* C17 witness: a session's second request is in flight after its first one
\* completed
C17_Witness ==
  \E i \in Servers : inflight[i] = 1 /\ sent[i] = 2

\* C18: server_streams changes only by an append while a transport is being
\* opened, and never once the try block of run() is entered.
C18_SessionListStable ==
  [][/\ enteredRunning => server_streams' = server_streams
     /\ server_streams' # server_streams =>
          /\ pc = "open"
          /\ \E x \in Servers : server_streams' = Append(server_streams, x)]_vars

\* C18 witness: two commands were dispatched over the same two sessions
C18_Witness ==
  /\ enteredRunning
  /\ server_streams = <<1, 2>>
  /\ ndispatched = 2
  /\ \A i \in Servers : sent[i] = 2
  /\ pc = "prompt"

\* C19: a run that entered Running and is over without an interrupt has
\* entered Closing.
C19_RunningLeadsToClosing ==
  (enteredRunning /\ pc \in {"ret", "Terminated"} /\ ~killed) => j >= 1

\* C19 witness: interactive mode ended by end-of-input and the transport was
\* closed
C19_Witness ==
  /\ enteredRunning
  /\ command = "none"
  /\ ~quitSeen
  /\ pc = "Terminated"
  /\ ~killed
  /\ \E i \in Servers : closeResult[i] = "closed"

\* C20: close is called at most once on each transport and send_initialize
\* at most once on each session.
C20_AtMostOneCloseAndHandshake ==
  \A i \in Servers : closeAttempts[i] <= 1 /\ initAttempts[i] <= 1

\* C20 witness: a transport was initialised once, its close timed out once
\* and the run ended
C20_Witness ==
  /\ pc = "Terminated"
  /\ ~killed
  /\ \E i \in Servers :
       /\ initAttempts[i] = 1
       /\ closeAttempts[i] = 1
       /\ closeResult[i] = "timeout"

====
